---- MODULE Spec2Model ----
(***************************************************************************)
(* Model of the real-time transcription client                             *)
(* (openai_realtime_api.py, class OpenAIRealtimeTranscriber).              *)
(*                                                                         *)
(* The program is one asyncio event loop running three coroutines: the     *)
(* coordinator (connect_and_run), the uplink task (stream_audio) and the   *)
(* downlink task (handle_server_events).  One action of the model is one   *)
(* run of a coroutine from a suspension point to the next one.  The        *)
(* synchronous device read of the uplink is split in two so that the state *)
(* "blocked inside stream.read" is visible: while it lasts the event loop  *)
(* is blocked and only the environment moves.                              *)
(*                                                                         *)
(* The batch client (whisper.py, class WhisperTranscriber) is a second     *)
(* program: a main thread and one transcription thread.  Its variables     *)
(* start with "w"; the specification WhisperSpec runs it.                  *)
(***************************************************************************)
EXTENDS Integers, Sequences, FiniteSets, TLC

\* ------------------------------------------------------------------------
\* Bounds of the model
\* ------------------------------------------------------------------------

\* inbound wire messages delivered to the downlink loop in one session
MaxMsgs == 3

\* audio buffers the capture device delivers in one session
MaxFrames == 2

\* chunks the batch client records in one run
MaxChunks == 2

\* device reads that make up one chunk of the batch client, scaled down
ReadsPerChunk == 2

\* ------------------------------------------------------------------------
\* Text: Python str as a sequence of characters, str.strip()
\* ------------------------------------------------------------------------

Whitespace == {" ", "\t", "\n"}

RECURSIVE LStrip(_)
LStrip(s) ==
    IF s = <<>> THEN <<>>
    ELSE IF Head(s) \in Whitespace THEN LStrip(Tail(s))
    ELSE s

RECURSIVE RStrip(_)
RStrip(s) ==
    IF s = <<>> THEN <<>>
    ELSE IF s[Len(s)] \in Whitespace THEN RStrip(SubSeq(s, 1, Len(s) - 1))
    ELSE s

\* text.strip()
Strip(s) == RStrip(LStrip(s))

Empty == <<>>
Blank == <<" ", " ", " ">>
Hel   == <<"h", "e", "l">>
Hello == <<"h", "e", "l", "l", "o", " ">>

\* values of the "delta" field and of the "transcript" field on the wire
DeltaTexts == {Blank, Hel}
FinalTexts == {Empty, Hello}

ItemIds == {"i1"}

\* ------------------------------------------------------------------------
\* Inbound wire messages
\* ------------------------------------------------------------------------

TypeDelta     == "conversation.item.input_audio_transcription.delta"
TypeCompleted == "conversation.item.input_audio_transcription.completed"
TranscriptionTypes == {TypeDelta, TypeCompleted}

OtherTypes ==
    {"session.created", "input_audio_buffer.speech_started",
     "input_audio_buffer.speech_stopped", "error", "response.done"}

\* A decoded event is a dict: a function from the keys it carries to values.
\* Transcription events carry any subset of delta / transcript / item_id;
\* an optional field is drawn as a set of at most one value.
Opt(S) == {{}} \cup {{x} : x \in S}
The(o) == CHOOSE x \in o : TRUE

WithDelta(e, o) == IF o = {} THEN e ELSE e @@ [delta |-> The(o)]
WithTranscript(e, o) == IF o = {} THEN e ELSE e @@ [transcript |-> The(o)]
WithItem(e, o) == IF o = {} THEN e ELSE e @@ [item_id |-> The(o)]

\* every combination of fields for both kinds; the blank delta comes with
\* the delta kind and the empty transcript with the completed kind
TranscriptionEvents ==
    { WithItem(WithTranscript(WithDelta([type |-> TypeDelta], d), t), i) :
        d \in Opt(DeltaTexts), t \in Opt({Hello}), i \in Opt(ItemIds) }
    \cup
    { WithItem(WithTranscript(WithDelta([type |-> TypeCompleted], d), t), i) :
        d \in Opt({Hel}), t \in Opt(FinalTexts), i \in Opt(ItemIds) }

\* an event of another kind; the last one has no "type" key at all
OtherEvents ==
    { [type |-> ty] : ty \in OtherTypes } \cup { [code |-> "no_type"] }

Events == TranscriptionEvents \cup OtherEvents

\* A wire message is either the JSON text of an event, JSON text that is not
\* an object, or text that is not JSON.
Messages ==
    { [wire |-> "json", event |-> e] : e \in Events }
    \cup { [wire |-> "json_not_object"], [wire |-> "not_json"] }

NoMessage == [wire |-> "none"]

\* ------------------------------------------------------------------------
\* on_transcription_completed
\* ------------------------------------------------------------------------

Has(event, key) == key \in DOMAIN event

\* the text and is_final the handler computes before the emptiness test
HandlerText(event) ==
    LET t1 == IF Has(event, "transcript") THEN event.transcript ELSE Empty
    IN  IF Has(event, "delta") THEN event.delta ELSE t1

\* variant: is_final is never set
HandlerIsFinal_NeverSet(event) == FALSE

HandlerIsFinal(event) == Has(event, "transcript")

\* variant: the record carries the trimmed text
OutputRecord_Trimmed(text, isFinal, itemId) ==
    [transcript |-> Strip(text), is_final |-> isFinal, item_id |-> itemId]

OutputRecord(text, isFinal, itemId) ==
    [transcript |-> text, is_final |-> isFinal, item_id |-> itemId]

\* variant: the emptiness test is "if text:", without strip()
on_transcription_completed_NoStrip(event) ==
    LET text == HandlerText(event)
        is_final == HandlerIsFinal(event)
    IN  IF text # <<>>
        THEN IF Has(event, "item_id")
             THEN [raised |-> FALSE,
                   out |-> <<OutputRecord(text, is_final, event.item_id)>>]
             ELSE [raised |-> TRUE, out |-> <<>>]
        ELSE [raised |-> FALSE, out |-> <<>>]

\* result of one handler call: the records printed and whether it raised
on_transcription_completed(event) ==
    LET text == HandlerText(event)
        is_final == HandlerIsFinal(event)
    IN  IF Strip(text) # <<>>
        THEN IF Has(event, "item_id")
             THEN [raised |-> FALSE,
                   out |-> <<OutputRecord(text, is_final, event.item_id)>>]
             ELSE [raised |-> TRUE, out |-> <<>>]
        ELSE [raised |-> FALSE, out |-> <<>>]

\* variant: the log line reads event["type"], a KeyError when it is missing
LogOnly_TypeRequired(event) == [raised |-> ~Has(event, "type"), out |-> <<>>]

\* the print-only handlers: on_session_created, on_speech_started,
\* on_speech_stopped, on_error, and the final else branch
LogOnly(event) == [raised |-> FALSE, out |-> <<>>]

\* event.get("type", "")
EventType(event) == IF Has(event, "type") THEN event.type ELSE ""

\* the if/elif chain of handle_server_events
Dispatch(event) ==
    LET event_type == EventType(event)
    IN  IF event_type = "session.created" THEN LogOnly(event)
        ELSE IF event_type = "input_audio_buffer.speech_started" THEN LogOnly(event)
        ELSE IF event_type = "input_audio_buffer.speech_stopped" THEN LogOnly(event)
        ELSE IF event_type = TypeDelta THEN on_transcription_completed(event)
        ELSE IF event_type = TypeCompleted THEN on_transcription_completed(event)
        ELSE IF event_type = "error" THEN LogOnly(event)
        ELSE LogOnly(event)

\* body of the async-for loop for one message: the inner try/except.
\* outcome "ok" | "decode_error" | "handler_error"; the loop goes on in all.
HandleMessage(m) ==
    IF m.wire = "not_json" THEN [outcome |-> "decode_error", out |-> <<>>]
    ELSE IF m.wire = "json_not_object"
         THEN [outcome |-> "handler_error", out |-> <<>>]
    ELSE LET r == Dispatch(m.event)
         IN  [outcome |-> IF r.raised THEN "handler_error" ELSE "ok",
              out |-> r.out]

\* ------------------------------------------------------------------------
\* Outbound messages: session configuration and audio frames
\* ------------------------------------------------------------------------

\* the k-th buffer stream.read returns, as a sequence of bytes.  The
\* buffers are scaled down to one to three bytes, so that the three
\* paddings of base64 occur, and every buffer differs from the others.
Buffer(k) == [j \in 1..((k % 3) + 1) |-> (k * 77 + j * 97) % 256]

\* the base64 alphabet
B64Chars ==
    <<"A", "B", "C", "D", "E", "F", "G", "H", "I", "J", "K", "L", "M",
      "N", "O", "P", "Q", "R", "S", "T", "U", "V", "W", "X", "Y", "Z",
      "a", "b", "c", "d", "e", "f", "g", "h", "i", "j", "k", "l", "m",
      "n", "o", "p", "q", "r", "s", "t", "u", "v", "w", "x", "y", "z",
      "0", "1", "2", "3", "4", "5", "6", "7", "8", "9", "+", "/">>

\* variant: a short last group is filled with zero bits and not marked
RECURSIVE B64Encode_ZeroFilled(_)
B64Encode_ZeroFilled(bytes) ==
    IF bytes = <<>> THEN <<>>
    ELSE LET n == IF Len(bytes) < 3 THEN Len(bytes) ELSE 3
             v == bytes[1] * 65536
                  + (IF n >= 2 THEN bytes[2] ELSE 0) * 256
                  + (IF n >= 3 THEN bytes[3] ELSE 0)
         IN  << B64Chars[((v \div 262144) % 64) + 1],
                B64Chars[((v \div 4096) % 64) + 1],
                B64Chars[((v \div 64) % 64) + 1],
                B64Chars[(v % 64) + 1] >>
             \o B64Encode_ZeroFilled(SubSeq(bytes, n + 1, Len(bytes)))

\* base64.b64encode(audio_data).decode("utf-8"): every three bytes give
\* four characters of six bits each; a last group of one or two bytes is
\* filled with zero bits and closed with "==" or "="
RECURSIVE B64Encode(_)
B64Encode(bytes) ==
    IF bytes = <<>> THEN <<>>
    ELSE LET n == IF Len(bytes) < 3 THEN Len(bytes) ELSE 3
             v == bytes[1] * 65536
                  + (IF n >= 2 THEN bytes[2] ELSE 0) * 256
                  + (IF n >= 3 THEN bytes[3] ELSE 0)
         IN  << B64Chars[((v \div 262144) % 64) + 1],
                B64Chars[((v \div 4096) % 64) + 1],
                IF n >= 2 THEN B64Chars[((v \div 64) % 64) + 1] ELSE "=",
                IF n >= 3 THEN B64Chars[(v % 64) + 1] ELSE "=" >>
             \o B64Encode(SubSeq(bytes, n + 1, Len(bytes)))

\* session_config of send_session_config, by its type
SessionConfig == [type |-> "session.update"]

\* audio_event of stream_audio for the buffer audio_data
AudioEvent(audio_data) ==
    [type |-> "input_audio_buffer.append", audio |-> B64Encode(audio_data)]

\* ------------------------------------------------------------------------
\* State
\* ------------------------------------------------------------------------

VARIABLES
    cpc,          \* position of the coordinator, connect_and_run
    upc,          \* position of audio_task, stream_audio
    dpc,          \* position of events_task, handle_server_events
    conn,         \* self.websocket: "none" | "open" | "closed"
    peer,         \* the remote end: "no" | "closed" (it closed the connection)
    running,      \* self.running
    stream,       \* self.stream: "none" | "open" | "closed"
    ucancel,      \* audio_task.cancel() was requested and not yet delivered
    dcancel,      \* events_task.cancel() was requested and not yet delivered
    stopFired,    \* check_input returned in the executor thread
    sent,         \* the outbound messages, in send order
    frames,       \* buffers read from the capture device
    outputs,      \* the "Output: ..." records printed, in order
    lastMsg,      \* the inbound message dispatched last
    lastOutcome,  \* how the loop body ended for it
    nrecv,        \* inbound messages received
    itemPhase,    \* history: per item id, "unseen" | "delta" | "completed"
    pending,      \* exception leaving the body of the async-with block
    closeCalls,   \* closes of the connection by the client
    streamCloses, \* stop_stream()/close() pairs on the capture stream
    terminated,   \* calls of self.audio.terminate()
    caught,       \* "Connection error" was printed by connect_and_run
    escaped,      \* exception class that left connect_and_run, or "none"
    wmain,        \* batch client: position of the main thread
    wthread,      \* batch client: position of the transcription thread
    wrunning,     \* batch client: self.running
    waudio,       \* batch client: self.audio, "live" | "terminated"
    wstream,      \* batch client: the stream of record_chunk
    wreads,       \* batch client: reads made for the chunk being recorded
    wchunks,      \* batch client: chunks recorded
    wprinted,     \* batch client: "Transcription: ..." lines printed
    woutcome,     \* batch client: how start_continuous_transcription ended
    wjoin         \* batch client: how the join ended

vars == <<cpc, upc, dpc, conn, peer, running, stream, ucancel, dcancel,
          stopFired, sent, frames, outputs, lastMsg, lastOutcome, nrecv,
          itemPhase, pending, closeCalls, streamCloses, terminated, caught, escaped,
          wmain, wthread, wrunning, waudio, wstream, wreads, wchunks,
          wprinted, woutcome, wjoin>>

\* the variables of the real-time client and those of the batch client
realtimeVars ==
    <<cpc, upc, dpc, conn, peer, running, stream, ucancel, dcancel,
      stopFired, sent, frames, outputs, lastMsg, lastOutcome, nrecv,
      itemPhase, pending, closeCalls, streamCloses, terminated, caught, escaped>>
whisperVars ==
    <<wmain, wthread, wrunning, waudio, wstream, wreads, wchunks,
      wprinted, woutcome, wjoin>>

coordVars == <<cpc, pending, closeCalls, terminated, caught, escaped>>
upVars    == <<upc, stream, streamCloses, frames>>
downVars  == <<dpc, outputs, lastMsg, lastOutcome, nrecv, itemPhase>>

Finished == {"done", "failed", "cancelled"}

\* History of the inbound events per item id, kept to state properties of
\* event sequences; the program itself keeps no per-item state.  An item is
\* "delta" once a transcription-delta event for it was dispatched and
\* "completed" once a transcription-completed event followed.
IsEvent(m) == m.wire = "json"
TypeOf(m) == IF IsEvent(m) THEN EventType(m.event) ELSE ""
CarriesItem(m, i) ==
    IsEvent(m) /\ Has(m.event, "item_id") /\ m.event.item_id = i

NextPhase(phase, m) ==
    [i \in ItemIds |->
        IF ~CarriesItem(m, i) THEN phase[i]
        ELSE IF TypeOf(m) = TypeDelta /\ phase[i] = "unseen" THEN "delta"
        ELSE IF TypeOf(m) = TypeCompleted /\ phase[i] = "delta" THEN "completed"
        ELSE phase[i]]

\* WhisperTranscriber.__init__: the audio backend is up, running False
WhisperInit ==
    /\ wmain = "init" /\ wthread = "none"
    /\ wrunning = FALSE /\ waudio = "live" /\ wstream = "none"
    /\ wreads = 0 /\ wchunks = 0 /\ wprinted = 0
    /\ woutcome = "none" /\ wjoin = "none"

\* __init__: no websocket, no stream, running False
Init ==
    /\ WhisperInit
    /\ cpc = "start" /\ upc = "notcreated" /\ dpc = "notcreated"
    /\ conn = "none" /\ peer = "no"
    /\ running = FALSE /\ stream = "none"
    /\ ucancel = FALSE /\ dcancel = FALSE /\ stopFired = FALSE
    /\ sent = <<>> /\ frames = 0
    /\ outputs = <<>> /\ lastMsg = NoMessage /\ lastOutcome = "none"
    /\ nrecv = 0
    /\ itemPhase = [i \in ItemIds |-> "unseen"]
    /\ pending = "none" /\ closeCalls = 0 /\ streamCloses = 0
    /\ terminated = 0 /\ caught = FALSE /\ escaped = "none"

\* ------------------------------------------------------------------------
\* Exceptions
\* ------------------------------------------------------------------------

\* what "await task" raises in the awaiting coroutine, by how the task ended
AwaitRaises(pc) ==
    IF pc = "cancelled" THEN "CancelledError"
    ELSE IF pc = "failed" THEN "Exception"
    ELSE "none"

\* variant: the await is not wrapped, CancelledError goes on
ExceptCancelledPass_Missing(e) == e

\* try: await task / except asyncio.CancelledError: pass
ExceptCancelledPass(e) == IF e = "CancelledError" THEN "none" ELSE e

\* variant: the exception is printed and raised again
ExceptExceptionPrint_Reraise(e) == e

\* except Exception as e: print(...) -- CancelledError is a BaseException
ExceptExceptionPrint(e) == IF e = "Exception" THEN "none" ELSE e

\* the event loop runs one coroutine at a time and a synchronous
\* stream.read() holds it: no coroutine is resumed while the uplink reads
LoopFree == upc # "reading"

\* ------------------------------------------------------------------------
\* Coordinator: connect_and_run
\* ------------------------------------------------------------------------

\* the except / finally clauses of connect_and_run, entered with exception e
\* (or "none") leaving the try body; the call then returns or raises
ExitRun(e) ==
    /\ caught' = (e = "Exception")
    /\ escaped' = ExceptExceptionPrint(e)
    /\ terminated' = terminated + 1
    /\ cpc' = "returned"

\* async with websockets.connect(...) as websocket: the open
Connect ==
    /\ cpc = "start"
    /\ \E ok \in BOOLEAN :
         IF ok
         THEN /\ conn' = "open"
              /\ cpc' = "connected"
              /\ UNCHANGED <<caught, escaped, terminated>>
         ELSE /\ conn' = "none"
              /\ ExitRun("Exception")
    /\ UNCHANGED <<pending, closeCalls, peer, running, ucancel, dcancel,
                   stopFired, sent>>
    /\ UNCHANGED upVars /\ UNCHANGED downVars
    /\ UNCHANGED whisperVars

\* variant: the tasks are started without the configuration being sent
SendConfig_NotSent ==
    /\ cpc = "connected"
    /\ running' = TRUE
    /\ upc' = "pending"
    /\ dpc' = "pending"
    /\ cpc' = "waiting"
    /\ UNCHANGED <<sent, conn, closeCalls, caught, escaped, terminated>>
    /\ UNCHANGED <<pending, peer, ucancel, dcancel, stopFired>>
    /\ UNCHANGED <<stream, streamCloses, frames>>
    /\ UNCHANGED <<outputs, lastMsg, lastOutcome, nrecv, itemPhase>>
    /\ UNCHANGED whisperVars

\* variant: the tasks are created first, the configuration is sent after
\* they have started
SendConfig_TasksFirst ==
    /\ cpc = "connected"
    /\ IF upc = "notcreated"
       THEN /\ running' = TRUE
            /\ upc' = "pending"
            /\ dpc' = "pending"
            /\ UNCHANGED <<sent, cpc>>
       ELSE /\ sent' = Append(sent, SessionConfig)
            /\ cpc' = "waiting"
            /\ UNCHANGED <<running, upc, dpc>>
    /\ UNCHANGED <<conn, closeCalls, caught, escaped, terminated>>
    /\ UNCHANGED <<pending, peer, ucancel, dcancel, stopFired>>
    /\ UNCHANGED <<stream, streamCloses, frames>>
    /\ UNCHANGED <<outputs, lastMsg, lastOutcome, nrecv, itemPhase>>
    /\ UNCHANGED whisperVars

\* send_session_config, then running = True, the two create_task calls and
\* the await on run_in_executor; a failed send leaves the async-with block,
\* which closes the connection, and is caught by except Exception
SendConfig ==
    /\ cpc = "connected"
    /\ IF peer = "no"
       THEN /\ sent' = Append(sent, SessionConfig)
            /\ running' = TRUE
            /\ upc' = "pending"
            /\ dpc' = "pending"
            /\ cpc' = "waiting"
            /\ UNCHANGED <<conn, closeCalls, caught, escaped, terminated>>
       ELSE /\ conn' = "closed"
            /\ closeCalls' = closeCalls + 1
            /\ ExitRun("Exception")
            /\ UNCHANGED <<sent, running, upc, dpc>>
    /\ UNCHANGED <<pending, peer, ucancel, dcancel, stopFired>>
    /\ UNCHANGED <<stream, streamCloses, frames>>
    /\ UNCHANGED <<outputs, lastMsg, lastOutcome, nrecv, itemPhase>>
    /\ UNCHANGED whisperVars

\* variant: the flag is cleared but the tasks are not cancelled
CoordinatorStop_NoCancel ==
    /\ cpc = "waiting" /\ stopFired /\ LoopFree
    /\ upc # "pending" /\ dpc # "pending"
    /\ running' = FALSE
    /\ cpc' = "await_audio"
    /\ UNCHANGED <<ucancel, dcancel>>
    /\ UNCHANGED <<pending, closeCalls, terminated, caught, escaped>>
    /\ UNCHANGED <<conn, peer, stopFired, sent>>
    /\ UNCHANGED upVars /\ UNCHANGED downVars
    /\ UNCHANGED whisperVars

\* the coordinator is resumed after run_in_executor: running = False,
\* audio_task.cancel(), events_task.cancel(), then "await audio_task".
\* Both tasks were scheduled before the coordinator suspended, so both have
\* started.  cancel() on a finished task does nothing.
CoordinatorStop ==
    /\ cpc = "waiting" /\ stopFired /\ LoopFree
    /\ upc # "pending" /\ dpc # "pending"
    /\ running' = FALSE
    /\ ucancel' = (upc \notin Finished)
    /\ dcancel' = (dpc \notin Finished)
    /\ cpc' = "await_audio"
    /\ UNCHANGED <<pending, closeCalls, terminated, caught, escaped>>
    /\ UNCHANGED <<conn, peer, stopFired, sent>>
    /\ UNCHANGED upVars /\ UNCHANGED downVars
    /\ UNCHANGED whisperVars

\* entering __aexit__ of the async-with block with exception e: close()
BeginClose(e) ==
    /\ pending' = e
    /\ closeCalls' = closeCalls + 1
    /\ cpc' = "closing"

\* try: await audio_task / except asyncio.CancelledError: pass
AwaitAudioTask ==
    /\ cpc = "await_audio" /\ LoopFree
    /\ upc \in Finished
    /\ LET e == ExceptCancelledPass(AwaitRaises(upc))
       IN  IF e = "none"
           THEN /\ cpc' = "await_events"
                /\ UNCHANGED <<pending, closeCalls>>
           ELSE BeginClose(e)
    /\ UNCHANGED <<terminated, caught, escaped>>
    /\ UNCHANGED <<conn, peer, running, ucancel, dcancel, stopFired, sent>>
    /\ UNCHANGED upVars /\ UNCHANGED downVars
    /\ UNCHANGED whisperVars

\* try: await events_task / except asyncio.CancelledError: pass; the body
\* of the async-with block ends and __aexit__ closes the connection
AwaitEventsTask ==
    /\ cpc = "await_events" /\ LoopFree
    /\ dpc \in Finished
    /\ BeginClose(ExceptCancelledPass(AwaitRaises(dpc)))
    /\ UNCHANGED <<terminated, caught, escaped>>
    /\ UNCHANGED <<conn, peer, running, ucancel, dcancel, stopFired, sent>>
    /\ UNCHANGED upVars /\ UNCHANGED downVars
    /\ UNCHANGED whisperVars

\* close() completes; except Exception / finally; connect_and_run returns
CloseDone ==
    /\ cpc = "closing" /\ LoopFree
    /\ conn' = "closed"
    /\ ExitRun(pending)
    /\ UNCHANGED <<pending, closeCalls>>
    /\ UNCHANGED <<peer, running, ucancel, dcancel, stopFired, sent>>
    /\ UNCHANGED upVars /\ UNCHANGED downVars
    /\ UNCHANGED whisperVars

\* ------------------------------------------------------------------------
\* Uplink: stream_audio
\* ------------------------------------------------------------------------

\* variant: no finally clause, the stream is released on a normal end only
ReleaseAndEnd_NoFinally(pc) ==
    /\ IF stream # "none" /\ pc # "cancelled"
       THEN /\ stream' = "closed"
            /\ streamCloses' = streamCloses + 1
       ELSE UNCHANGED <<stream, streamCloses>>
    /\ upc' = pc

\* finally: if self.stream: stop_stream(); close()  -- the task ends as pc
ReleaseAndEnd(pc) ==
    /\ IF stream # "none"
       THEN /\ stream' = "closed"
            /\ streamCloses' = streamCloses + 1
       ELSE UNCHANGED <<stream, streamCloses>>
    /\ upc' = pc

\* first step of the task: start_audio_capture() outside the try; a failed
\* open ends the task with that exception and leaves self.stream None.
\* Then the test of "while self.running" and the call of stream.read.
UplinkStart ==
    /\ upc = "pending"
    /\ \E ok \in BOOLEAN :
         IF ok
         THEN IF running
              THEN /\ stream' = "open"
                   /\ upc' = "reading"
                   /\ UNCHANGED streamCloses
              ELSE /\ stream' = "closed"
                   /\ streamCloses' = streamCloses + 1
                   /\ upc' = "done"
         ELSE /\ upc' = "failed"
              /\ UNCHANGED <<stream, streamCloses>>
    /\ UNCHANGED frames
    /\ UNCHANGED <<conn, peer, running, ucancel, dcancel, stopFired, sent>>
    /\ UNCHANGED coordVars /\ UNCHANGED downVars
    /\ UNCHANGED whisperVars

\* variant: the inner except logs the error and the loop goes on
UplinkReadReturns_Retry ==
    /\ upc = "reading"
    /\ \E ok \in BOOLEAN :
         IF ok
         THEN /\ frames < MaxFrames
              /\ frames' = frames + 1
              /\ upc' = "sending"
         ELSE /\ upc' = "sleeping"
              /\ UNCHANGED frames
    /\ UNCHANGED <<stream, streamCloses>>
    /\ UNCHANGED <<conn, peer, running, ucancel, dcancel, stopFired, sent>>
    /\ UNCHANGED coordVars /\ UNCHANGED downVars
    /\ UNCHANGED whisperVars

\* stream.read returns a buffer, which is encoded and handed to
\* websocket.send (awaited), or raises, which the inner except answers with
\* break.  The device delivers at most MaxFrames buffers.
UplinkReadReturns ==
    /\ upc = "reading"
    /\ \E ok \in BOOLEAN :
         IF ok
         THEN /\ frames < MaxFrames
              /\ frames' = frames + 1
              /\ upc' = "sending"
              /\ UNCHANGED <<stream, streamCloses>>
         ELSE /\ ReleaseAndEnd("done")
              /\ UNCHANGED frames
    /\ UNCHANGED <<conn, peer, running, ucancel, dcancel, stopFired, sent>>
    /\ UNCHANGED coordVars /\ UNCHANGED downVars
    /\ UNCHANGED whisperVars

\* variant: the uplink clears the flag when its send fails
UplinkSendDone_ClearsFlag ==
    /\ upc = "sending" /\ ~ucancel
    /\ IF conn = "open" /\ peer = "no"
       THEN /\ sent' = Append(sent, AudioEvent(Buffer(frames)))
            /\ upc' = "sleeping"
            /\ UNCHANGED <<stream, streamCloses, running>>
       ELSE /\ ReleaseAndEnd("done")
            /\ running' = FALSE
            /\ UNCHANGED sent
    /\ UNCHANGED frames
    /\ UNCHANGED <<conn, peer, ucancel, dcancel, stopFired>>
    /\ UNCHANGED coordVars /\ UNCHANGED downVars
    /\ UNCHANGED whisperVars

\* await self.websocket.send(...) ends: the frame is out and the task goes
\* to asyncio.sleep, or the send raised (connection closed) and the inner
\* except breaks out of the loop
UplinkSendDone ==
    /\ upc = "sending" /\ ~ucancel
    /\ IF conn = "open" /\ peer = "no"
       THEN /\ sent' = Append(sent, AudioEvent(Buffer(frames)))
            /\ upc' = "sleeping"
            /\ UNCHANGED <<stream, streamCloses>>
       ELSE /\ ReleaseAndEnd("done")
            /\ UNCHANGED sent
    /\ UNCHANGED frames
    /\ UNCHANGED <<conn, peer, running, ucancel, dcancel, stopFired>>
    /\ UNCHANGED coordVars /\ UNCHANGED downVars
    /\ UNCHANGED whisperVars

\* asyncio.sleep(0.01) ends; "while self.running" is tested again and
\* stream.read is called
UplinkSleepDone ==
    /\ upc = "sleeping" /\ ~ucancel
    /\ IF running
       THEN /\ upc' = "reading"
            /\ UNCHANGED <<stream, streamCloses>>
       ELSE ReleaseAndEnd("done")
    /\ UNCHANGED frames
    /\ UNCHANGED <<conn, peer, running, ucancel, dcancel, stopFired, sent>>
    /\ UNCHANGED coordVars /\ UNCHANGED downVars
    /\ UNCHANGED whisperVars

\* variant: the send is shielded: it completes before the task ends
UplinkCancelled_SendShielded ==
    /\ upc \in {"sending", "sleeping"} /\ ucancel
    /\ ReleaseAndEnd("cancelled")
    /\ ucancel' = FALSE
    /\ sent' = IF upc = "sending" /\ conn = "open" /\ peer = "no"
               THEN Append(sent, AudioEvent(Buffer(frames)))
               ELSE sent
    /\ UNCHANGED frames
    /\ UNCHANGED <<conn, peer, running, dcancel, stopFired>>
    /\ UNCHANGED coordVars /\ UNCHANGED downVars
    /\ UNCHANGED whisperVars

\* CancelledError is raised at the await the task is suspended in; it is
\* not an Exception, so neither except clause takes it; finally runs
UplinkCancelled ==
    /\ upc \in {"sending", "sleeping"} /\ ucancel
    /\ ReleaseAndEnd("cancelled")
    /\ ucancel' = FALSE
    /\ UNCHANGED frames
    /\ UNCHANGED <<conn, peer, running, dcancel, stopFired, sent>>
    /\ UNCHANGED coordVars /\ UNCHANGED downVars
    /\ UNCHANGED whisperVars

\* ------------------------------------------------------------------------
\* Downlink: handle_server_events
\* ------------------------------------------------------------------------

\* first step of the task, scheduled behind the first step of audio_task:
\* the async-for suspends in the receive
DownlinkStart ==
    /\ dpc = "pending" /\ LoopFree
    /\ upc # "pending"
    /\ dpc' = "recv"
    /\ UNCHANGED <<outputs, lastMsg, lastOutcome, nrecv, itemPhase>>
    /\ UNCHANGED <<conn, peer, running, ucancel, dcancel, stopFired, sent>>
    /\ UNCHANGED coordVars /\ UNCHANGED upVars
    /\ UNCHANGED whisperVars

\* variant: the try/except encloses the loop, a failing message ends it
DownlinkReceive_ExceptOutsideLoop(m) ==
    /\ dpc = "recv" /\ ~dcancel /\ LoopFree
    /\ conn = "open" /\ peer = "no"
    /\ nrecv < MaxMsgs
    /\ LET r == HandleMessage(m)
       IN  /\ outputs' = outputs \o r.out
           /\ lastOutcome' = r.outcome
           /\ dpc' = IF r.outcome = "ok" THEN "recv" ELSE "done"
    /\ lastMsg' = m
    /\ nrecv' = nrecv + 1
    /\ itemPhase' = NextPhase(itemPhase, m)
    /\ UNCHANGED <<conn, peer, running, ucancel, dcancel, stopFired, sent>>
    /\ UNCHANGED coordVars /\ UNCHANGED upVars
    /\ UNCHANGED whisperVars

\* one iteration of the async-for: message m is received, decoded and
\* dispatched; the handlers do not suspend; the loop awaits the next one
DownlinkReceive(m) ==
    /\ dpc = "recv" /\ ~dcancel /\ LoopFree
    /\ conn = "open" /\ peer = "no"
    /\ nrecv < MaxMsgs
    /\ LET r == HandleMessage(m)
       IN  /\ outputs' = outputs \o r.out
           /\ lastOutcome' = r.outcome
    /\ lastMsg' = m
    /\ nrecv' = nrecv + 1
    /\ itemPhase' = NextPhase(itemPhase, m)
    /\ dpc' = "recv"
    /\ UNCHANGED <<conn, peer, running, ucancel, dcancel, stopFired, sent>>
    /\ UNCHANGED coordVars /\ UNCHANGED upVars
    /\ UNCHANGED whisperVars

\* the connection was closed by the remote end: the iterator stops
\* (normal closure) or raises ConnectionClosed, which is caught
DownlinkConnectionClosed ==
    /\ dpc = "recv" /\ ~dcancel /\ LoopFree
    /\ peer # "no"
    /\ dpc' = "done"
    /\ UNCHANGED <<outputs, lastMsg, lastOutcome, nrecv, itemPhase>>
    /\ UNCHANGED <<conn, peer, running, ucancel, dcancel, stopFired, sent>>
    /\ UNCHANGED coordVars /\ UNCHANGED upVars
    /\ UNCHANGED whisperVars

\* variant: the loop body catches the cancellation and goes on receiving
DownlinkCancelled_Swallowed ==
    /\ dpc = "recv" /\ dcancel /\ LoopFree
    /\ dpc' = "recv"
    /\ dcancel' = FALSE
    /\ UNCHANGED <<outputs, lastMsg, lastOutcome, nrecv, itemPhase>>
    /\ UNCHANGED <<conn, peer, running, ucancel, stopFired, sent>>
    /\ UNCHANGED coordVars /\ UNCHANGED upVars
    /\ UNCHANGED whisperVars

\* CancelledError is raised in the receive and leaves the coroutine
DownlinkCancelled ==
    /\ dpc = "recv" /\ dcancel /\ LoopFree
    /\ dpc' = "cancelled"
    /\ dcancel' = FALSE
    /\ UNCHANGED <<outputs, lastMsg, lastOutcome, nrecv, itemPhase>>
    /\ UNCHANGED <<conn, peer, running, ucancel, stopFired, sent>>
    /\ UNCHANGED coordVars /\ UNCHANGED upVars
    /\ UNCHANGED whisperVars

\* ------------------------------------------------------------------------
\* Environment
\* ------------------------------------------------------------------------

\* input() returns in the executor thread (Enter, or end of input)
StopTrigger ==
    /\ cpc = "waiting" /\ ~stopFired
    /\ stopFired' = TRUE
    /\ UNCHANGED <<conn, peer, running, ucancel, dcancel, sent>>
    /\ UNCHANGED coordVars /\ UNCHANGED upVars /\ UNCHANGED downVars
    /\ UNCHANGED whisperVars

\* the remote end closes the connection, normally or not: from then on a
\* send raises ConnectionClosed and the receive iterator ends
PeerCloses ==
    /\ conn = "open" /\ peer = "no"
    /\ peer' = "closed"
    /\ UNCHANGED <<conn, running, ucancel, dcancel, stopFired, sent>>
    /\ UNCHANGED coordVars /\ UNCHANGED upVars /\ UNCHANGED downVars
    /\ UNCHANGED whisperVars

\* ------------------------------------------------------------------------
\* Specification
\* ------------------------------------------------------------------------

Next ==
    \/ Connect
    \/ SendConfig
    \/ CoordinatorStop
    \/ AwaitAudioTask
    \/ AwaitEventsTask
    \/ CloseDone
    \/ UplinkStart
    \/ UplinkReadReturns
    \/ UplinkSendDone
    \/ UplinkSleepDone
    \/ UplinkCancelled
    \/ DownlinkStart
    \/ \E m \in Messages : DownlinkReceive(m)
    \/ DownlinkConnectionClosed
    \/ DownlinkCancelled
    \/ StopTrigger
    \/ PeerCloses

Spec == Init /\ [][Next]_vars

\* one step of the event loop: a coroutine that is ready is resumed
LoopStep ==
    \/ CoordinatorStop
    \/ AwaitAudioTask
    \/ AwaitEventsTask
    \/ CloseDone
    \/ UplinkStart
    \/ UplinkSendDone
    \/ UplinkSleepDone
    \/ UplinkCancelled
    \/ DownlinkStart
    \/ DownlinkCancelled

\* The event loop keeps resuming the coroutines that are ready, and the
\* device read returns.  Inbound messages, the remote close and the stop
\* trigger are not forced to happen.
Fairness ==
    /\ WF_vars(LoopStep)
    /\ WF_vars(UplinkReadReturns)

FairSpec == Init /\ [][Next]_vars /\ Fairness

TypeOK ==
    /\ cpc \in {"start", "connected", "waiting", "await_audio",
                 "await_events", "closing", "returned"}
    /\ upc \in {"notcreated", "pending", "reading", "sending", "sleeping"}
                  \cup Finished
    /\ dpc \in {"notcreated", "pending", "recv"} \cup Finished
    /\ conn \in {"none", "open", "closed"}
    /\ stream \in {"none", "open", "closed"}
    /\ nrecv \in 0..MaxMsgs /\ frames \in 0..MaxFrames

\* ------------------------------------------------------------------------
\* Batch client: whisper.py
\* ------------------------------------------------------------------------

\* the transcription thread has ended: its loop returned or an exception
\* left it
ThreadEnded == {"finished", "raised"}

\* main calls start_continuous_transcription: running = True, the daemon
\* thread is started and the main thread blocks in input()
StartTranscription ==
    /\ wmain = "init"
    /\ wrunning' = TRUE
    /\ wthread' = "test"
    /\ wmain' = "input"
    /\ UNCHANGED <<waudio, wstream, wreads, wchunks, wprinted, woutcome, wjoin>>
    /\ UNCHANGED realtimeVars

\* "while self.running" in transcription_loop, then the open of the stream
\* in record_chunk; the open raises once the backend is terminated, and may
\* raise for the device's own reasons.  At most MaxChunks chunks.
ThreadTest ==
    /\ wthread = "test" /\ wmain # "gone"
    /\ IF wrunning
       THEN /\ wchunks < MaxChunks
            /\ \E ok \in BOOLEAN :
                 IF ok /\ waudio = "live"
                 THEN /\ wstream' = "open"
                      /\ wreads' = 0
                      /\ wthread' = "record"
                 ELSE /\ wthread' = "raised"
                      /\ UNCHANGED <<wstream, wreads>>
       ELSE /\ wthread' = "finished"
            /\ UNCHANGED <<wstream, wreads>>
    /\ UNCHANGED <<wmain, wrunning, waudio, wchunks, wprinted, woutcome, wjoin>>
    /\ UNCHANGED realtimeVars

\* one stream.read of record_chunk; after the last one the stream is
\* stopped and closed and transcribe_audio sends the request.  A read that
\* raises ends the thread with the stream left open.  On a terminated
\* backend the read may raise or return.
ThreadRead ==
    /\ wthread = "record" /\ wmain # "gone"
    /\ \E ok \in BOOLEAN :
         IF ok
         THEN IF wreads + 1 < ReadsPerChunk
              THEN /\ wreads' = wreads + 1
                   /\ UNCHANGED <<wstream, wchunks, wthread>>
              ELSE /\ wreads' = 0
                   /\ wstream' = "closed"
                   /\ wchunks' = wchunks + 1
                   /\ wthread' = "transcribe"
         ELSE /\ wthread' = "raised"
              /\ UNCHANGED <<wstream, wreads, wchunks>>
    /\ UNCHANGED <<wmain, wrunning, waudio, wprinted, woutcome, wjoin>>
    /\ UNCHANGED realtimeVars

\* the request of transcribe_audio ends: a non-empty transcript is
\* printed; an empty one, or an error (caught, "" returned), is not
ThreadTranscribed ==
    /\ wthread = "transcribe" /\ wmain # "gone"
    /\ \E r \in {"text", "empty", "error"} :
         wprinted' = IF r = "text" THEN wprinted + 1 ELSE wprinted
    /\ wthread' = "test"
    /\ UNCHANGED <<wmain, wrunning, waudio, wstream, wreads, wchunks,
                   woutcome, wjoin>>
    /\ UNCHANGED realtimeVars

\* input() returns: running = False and the join begins
EnterPressed ==
    /\ wmain = "input"
    /\ wrunning' = FALSE
    /\ wmain' = "join"
    /\ UNCHANGED <<wthread, waudio, wstream, wreads, wchunks, wprinted,
                   woutcome, wjoin>>
    /\ UNCHANGED realtimeVars

\* input() raises KeyboardInterrupt (Ctrl-C) or EOFError (end of input):
\* the exception leaves start_continuous_transcription with running still
\* True and is caught in main
InputRaises ==
    /\ wmain = "input"
    /\ \E e \in {"KeyboardInterrupt", "Exception"} : woutcome' = e
    /\ wmain' = "finally"
    /\ UNCHANGED <<wthread, wrunning, waudio, wstream, wreads, wchunks,
                   wprinted, wjoin>>
    /\ UNCHANGED realtimeVars

\* join(timeout=5) returns because the thread has ended
JoinReturns ==
    /\ wmain = "join"
    /\ wthread \in ThreadEnded
    /\ wjoin' = "ended"
    /\ woutcome' = "returned"
    /\ wmain' = "finally"
    /\ UNCHANGED <<wthread, wrunning, waudio, wstream, wreads, wchunks, wprinted>>
    /\ UNCHANGED realtimeVars

\* join(timeout=5) returns because the timeout has passed.  A recording
\* lasts record_seconds = 3, less than the timeout, and the test of the
\* flag takes no time: the thread that outlasts the join is the one whose
\* transcription request has not returned.
JoinTimesOut ==
    /\ wmain = "join"
    /\ wthread = "transcribe"
    /\ wjoin' = "timeout"
    /\ woutcome' = "returned"
    /\ wmain' = "finally"
    /\ UNCHANGED <<wthread, wrunning, waudio, wstream, wreads, wchunks, wprinted>>
    /\ UNCHANGED realtimeVars

\* finally: transcriber.cleanup(), that is self.audio.terminate(); main
\* returns
Cleanup ==
    /\ wmain = "finally"
    /\ waudio' = "terminated"
    /\ wmain' = "exit"
    /\ UNCHANGED <<wthread, wrunning, wstream, wreads, wchunks, wprinted,
                   woutcome, wjoin>>
    /\ UNCHANGED realtimeVars

\* the interpreter exits: a daemon thread that still runs is abandoned
InterpreterExit ==
    /\ wmain = "exit"
    /\ wmain' = "gone"
    /\ wthread' = IF wthread \in ThreadEnded THEN wthread ELSE "killed"
    /\ UNCHANGED <<wrunning, waudio, wstream, wreads, wchunks, wprinted,
                   woutcome, wjoin>>
    /\ UNCHANGED realtimeVars

WhisperNext ==
    \/ StartTranscription
    \/ ThreadTest
    \/ ThreadRead
    \/ ThreadTranscribed
    \/ EnterPressed
    \/ InputRaises
    \/ JoinReturns
    \/ JoinTimesOut
    \/ Cleanup
    \/ InterpreterExit

WhisperSpec == Init /\ [][WhisperNext]_vars

WhisperTypeOK ==
    /\ wmain \in {"init", "input", "join", "finally", "exit", "gone"}
    /\ wthread \in {"none", "test", "record", "transcribe", "killed"}
                      \cup ThreadEnded
    /\ waudio \in {"live", "terminated"}
    /\ wstream \in {"none", "open", "closed"}
    /\ wreads \in 0..ReadsPerChunk /\ wchunks \in 0..MaxChunks
    /\ wprinted \in 0..MaxChunks
    /\ woutcome \in {"none", "returned", "KeyboardInterrupt", "Exception"}
    /\ wjoin \in {"none", "ended", "timeout"}

\* ------------------------------------------------------------------------
\* Properties
\* ------------------------------------------------------------------------

\* the step is one iteration of the downlink loop, for message m
Received(m) == nrecv' = nrecv + 1 /\ lastMsg' = m

OnlyDelta(e) == Has(e, "delta") /\ ~Has(e, "transcript")
OnlyTranscript(e) == Has(e, "transcript") /\ ~Has(e, "delta")
BothFields(e) == Has(e, "delta") /\ Has(e, "transcript")
NonBlank(text) == Strip(text) # <<>>

\* an output record as the properties state it
Rec(text, isFinal, itemId) ==
    [transcript |-> text, is_final |-> isFinal, item_id |-> itemId]

\* C1: the session.update message is the first outbound message and is sent
\* once: no input_audio_buffer.append is sent before the configuration send
\* has completed, and the tasks exist only after it.
C1_ConfigSentOnceAndFirst ==
    /\ \A k \in 1..Len(sent) : (sent[k].type = "session.update") <=> (k = 1)
    /\ (upc # "notcreated" \/ dpc # "notcreated" \/ running) => Len(sent) >= 1

C1_Witness ==
    /\ Len(sent) >= 2
    /\ sent[1].type = "session.update"
    /\ sent[2].type = "input_audio_buffer.append"

\* C2 as claimed: once a transcription-completed event has followed delta
\* events of an item, the completed event (with non-blank text) emitted
\* exactly one is_final record and no later event carrying that item id
\* emits an output record.
C2_NoOutputAfterCompleted ==
    [][\A i \in ItemIds : \A m \in Messages :
          (Received(m) /\ CarriesItem(m, i)) =>
             /\ (itemPhase[i] = "completed") => outputs' = outputs
             /\ (/\ itemPhase[i] = "delta"
                 /\ TypeOf(m) = TypeCompleted
                 /\ OnlyTranscript(m.event)
                 /\ NonBlank(m.event.transcript))
                 => outputs' = Append(outputs,
                                 Rec(m.event.transcript, TRUE, i))
      ]_vars

\* C2 amended: a transcription-completed event carrying only a non-blank
\* transcript that follows delta events of the same item emits exactly one
\* is_final record; no per-item state is kept, and a later event with that
\* item id and a single non-blank text field emits one more record.
C2_CompletedEmitsOnceNoItemState ==
    [][\A i \in ItemIds : \A m \in Messages :
          (Received(m) /\ CarriesItem(m, i)) =>
             /\ (/\ itemPhase[i] = "delta"
                 /\ TypeOf(m) = TypeCompleted
                 /\ OnlyTranscript(m.event)
                 /\ NonBlank(m.event.transcript))
                 => outputs' = Append(outputs,
                                 Rec(m.event.transcript, TRUE, i))
             /\ (/\ itemPhase[i] = "completed"
                 /\ TypeOf(m) = TypeDelta
                 /\ OnlyDelta(m.event)
                 /\ NonBlank(m.event.delta))
                 => outputs' = Append(outputs,
                                 Rec(m.event.delta, FALSE, i))
             /\ (/\ itemPhase[i] = "completed"
                 /\ TypeOf(m) = TypeCompleted
                 /\ OnlyTranscript(m.event)
                 /\ NonBlank(m.event.transcript))
                 => outputs' = Append(outputs,
                                 Rec(m.event.transcript, TRUE, i))
      ]_vars

\* a delta, then the completed event, then one more delta of item i1, each
\* with its record
C2_Witness ==
    /\ itemPhase["i1"] = "completed"
    /\ outputs = << Rec(Hel, FALSE, "i1"),
                    Rec(Hello, TRUE, "i1"),
                    Rec(Hel, FALSE, "i1") >>

\* C3: an event carrying both a delta and a transcript field emits a record
\* exactly when the trimmed transcript is non-empty, and the record has
\* is_final true and the transcript field as its text.
C3_FinalFieldAuthoritative ==
    [][\A m \in Messages :
          (/\ Received(m) /\ IsEvent(m)
           /\ TypeOf(m) \in TranscriptionTypes
           /\ BothFields(m.event) /\ Has(m.event, "item_id"))
          => outputs' =
               IF NonBlank(m.event.transcript)
               THEN Append(outputs, Rec(m.event.transcript, TRUE,
                                                 m.event.item_id))
               ELSE outputs
      ]_vars

\* C4: a transcription-delta event with only a non-blank delta emits exactly
\* one record {delta text, is_final false, item id}; a
\* transcription-completed event with only a non-blank transcript emits
\* exactly one record {final text, is_final true, item id}.
C4_OneRecordPerFragment ==
    [][\A m \in Messages :
          (Received(m) /\ IsEvent(m) /\ Has(m.event, "item_id")) =>
             /\ (/\ TypeOf(m) = TypeDelta
                 /\ OnlyDelta(m.event)
                 /\ NonBlank(m.event.delta))
                 => outputs' = Append(outputs,
                      Rec(m.event.delta, FALSE, m.event.item_id))
             /\ (/\ TypeOf(m) = TypeCompleted
                 /\ OnlyTranscript(m.event)
                 /\ NonBlank(m.event.transcript))
                 => outputs' = Append(outputs,
                      Rec(m.event.transcript, TRUE, m.event.item_id))
      ]_vars

C4_Witness ==
    /\ Len(outputs) = 2
    /\ outputs[1] = Rec(Hel, FALSE, "i1")
    /\ outputs[2] = Rec(Hello, TRUE, "i1")
    /\ nrecv = 2

\* every text fragment the event carries is empty after trimming
AllFragmentsBlank(e) ==
    /\ Has(e, "delta") => ~NonBlank(e.delta)
    /\ Has(e, "transcript") => ~NonBlank(e.transcript)

\* C5: silence suppression: a delta or completed event whose text is empty
\* or whitespace-only emits no record, and no record with such a text is
\* ever emitted.
C5_SilenceSuppressed ==
    [][\A m \in Messages :
          (Received(m) /\ IsEvent(m) /\ TypeOf(m) \in TranscriptionTypes) =>
             /\ AllFragmentsBlank(m.event) => outputs' = outputs
             /\ \A k \in 1..Len(outputs') : NonBlank(outputs'[k].transcript)
      ]_vars

\* a whitespace-only delta was dispatched and nothing was printed
C5_Witness ==
    /\ lastMsg = [wire |-> "json",
                  event |-> [type |-> TypeDelta, delta |-> Blank,
                             item_id |-> "i1"]]
    /\ lastOutcome = "ok"
    /\ outputs = <<>>

\* C6: an event of any kind other than the two transcription kinds (also one
\* without a type) does not raise, emits no record, does not touch the
\* connection and leaves the downlink loop waiting for the next message.
C6_DispatchTotal ==
    [][\A m \in Messages :
          (Received(m) /\ IsEvent(m) /\ TypeOf(m) \notin TranscriptionTypes)
          => /\ lastOutcome' = "ok"
             /\ outputs' = outputs
             /\ conn' = conn /\ closeCalls' = closeCalls
             /\ dpc' = "recv"
      ]_vars

\* an error event and, in another run, an event without type were dispatched
\* and the loop waits for the next message
C6_Witness ==
    /\ IsEvent(lastMsg)
    /\ TypeOf(lastMsg) \in {"error", ""}
    /\ lastOutcome = "ok"
    /\ dpc = "recv" /\ conn = "open"
    /\ nrecv < MaxMsgs

\* the message cannot be decoded, or its handler raises
FailsAlone(m) ==
    \/ m.wire = "not_json"
    \/ m.wire = "json_not_object"
    \/ /\ IsEvent(m) /\ TypeOf(m) \in TranscriptionTypes
       /\ ~Has(m.event, "item_id")
       /\ \/ Has(m.event, "delta") /\ NonBlank(m.event.delta)
          \/ OnlyTranscript(m.event) /\ NonBlank(m.event.transcript)

\* C7: a message that cannot be decoded, or whose handler raises, emits no
\* record and does not end the downlink loop; the valid message that arrives
\* after it is dispatched and emits its record.
C7_FailureIsPerMessage ==
    [][\A m \in Messages :
          Received(m) =>
             /\ FailsAlone(m) =>
                   /\ outputs' = outputs
                   /\ lastOutcome' \in {"decode_error", "handler_error"}
                   /\ dpc' = "recv"
             /\ (/\ FailsAlone(lastMsg)
                 /\ IsEvent(m) /\ TypeOf(m) = TypeDelta
                 /\ OnlyDelta(m.event) /\ NonBlank(m.event.delta)
                 /\ Has(m.event, "item_id"))
                 => /\ outputs' = Append(outputs,
                          Rec(m.event.delta, FALSE, m.event.item_id))
                    /\ lastOutcome' = "ok"
      ]_vars

\* a message whose handler raised was absorbed: the loop waits for the next
\* message and the connection can still deliver one
C7_Witness ==
    /\ FailsAlone(lastMsg)
    /\ IsEvent(lastMsg)
    /\ lastOutcome = "handler_error"
    /\ dpc = "recv" /\ ~dcancel
    /\ conn = "open" /\ peer = "no"
    /\ nrecv < MaxMsgs

C9_TeardownOnce ==
    /\ closeCalls <= 1
    /\ streamCloses <= 1
    /\ terminated <= 1
    /\ escaped = "none"

\* stop after the remote end closed and both loops ended by themselves
C9_Witness ==
    /\ cpc = "returned" /\ stopFired
    /\ peer # "no"
    /\ upc = "done" /\ dpc = "done"
    /\ closeCalls = 1 /\ streamCloses = 1 /\ terminated = 1

\* C10: when the stop trigger fires while the uplink is inside a device
\* read, connect_and_run eventually returns with both tasks ended, the
\* capture stream released, the connection closed and no exception escaping.
C10_StopMidReadEnds ==
    (stopFired /\ upc = "reading" /\ cpc = "waiting")
      ~> (/\ cpc = "returned"
          /\ upc \in Finished /\ dpc \in Finished
          /\ stream = "closed" /\ conn = "closed"
          /\ escaped = "none")

\* the trigger fired while the uplink was inside its second device read
C10_Witness ==
    /\ stopFired /\ upc = "reading" /\ cpc = "waiting"
    /\ frames >= 1

\* connect_and_run has returned without the two tasks ever being created:
\* the connect failed, or the configuration send failed
AbortedBeforeStreaming == cpc = "returned" /\ upc = "notcreated"

\* C11 as claimed: a failed connect and a failed configuration send abort
\* the run and reach the caller of connect_and_run as an error, not as a
\* normal return.
C11_FailureSurfacesToCaller ==
    AbortedBeforeStreaming => escaped # "none"

\* C11: a failed connect and a failed configuration send abort the run
\* before either task exists (the flag stays false, no audio is captured or
\* sent, nothing is dispatched); the exception is caught and printed inside
\* connect_and_run, which returns normally with the connection not left
\* open and the audio backend terminated once.
C11_FailureCaughtAndLogged ==
    AbortedBeforeStreaming =>
        /\ caught /\ escaped = "none"
        /\ dpc = "notcreated" /\ ~running /\ stream = "none"
        /\ sent = <<>> /\ frames = 0 /\ outputs = <<>>
        /\ conn # "open"
        /\ closeCalls = (IF conn = "closed" THEN 1 ELSE 0)
        /\ terminated = 1

\* the connection was opened and the configuration send failed
C11_Witness ==
    /\ AbortedBeforeStreaming
    /\ conn = "closed" /\ peer = "closed"
    /\ caught

\* a loop has ended by a failure: the device did not open, a device read or
\* a send raised, or the connection was closed by the remote end
LoopFailed == upc \in {"done", "failed"} \/ dpc = "done"

\* full teardown: flag cleared, both loops ended, connection closed, returned
FullTeardown ==
    /\ cpc = "returned" /\ ~running
    /\ upc \in Finished /\ dpc \in Finished
    /\ conn = "closed"

\* C12 as claimed: after a transport failure or a capture-device failure
\* during the session, full teardown is eventually reached, whether or not
\* the stop trigger fires.
C12_FailureEndsSession ==
    (cpc = "waiting" /\ LoopFailed) ~> FullTeardown

\* C12: a transport failure or a capture-device failure ends the loop that
\* met it and nothing more: until the stop trigger fires the coordinator
\* keeps waiting with the flag set and the connection not closed by the
\* client; once the trigger has fired, full teardown is eventually reached.
C12_FailureWaitsForStop ==
    /\ []((LoopFailed /\ ~stopFired) =>
             (cpc = "waiting" /\ running /\ conn = "open" /\ closeCalls = 0))
    /\ ((cpc = "waiting" /\ LoopFailed /\ stopFired) ~> FullTeardown)

\* a device read failed (the remote end never closed), then the stop
\* trigger fired and the run was torn down
C12_Witness ==
    /\ cpc = "returned" /\ stopFired
    /\ upc = "done" /\ peer = "no"
    /\ dpc = "cancelled" /\ conn = "closed"

\* base64 decoding, as the receiver of an append event does it: the value
\* of a character is its place in the alphabet, "=" marks a missing byte
B64Value(c) == IF c = "=" THEN 0 ELSE (CHOOSE i \in 1..64 : B64Chars[i] = c) - 1

RECURSIVE B64Decode(_)
B64Decode(text) ==
    IF Len(text) < 4 THEN <<>>
    ELSE LET v == B64Value(text[1]) * 262144 + B64Value(text[2]) * 4096
                  + B64Value(text[3]) * 64 + B64Value(text[4])
             n == IF text[3] = "=" THEN 1 ELSE IF text[4] = "=" THEN 2 ELSE 3
         IN  SubSeq(<<(v \div 65536) % 256, (v \div 256) % 256, v % 256>>, 1, n)
             \o B64Decode(SubSeq(text, 5, Len(text)))

\* the append events sent, in send order
AppendsSent == SelectSeq(sent, LAMBDA e : e.type = "input_audio_buffer.append")

\* the uplink holds a buffer it has read and whose send has not completed
SendOpen == upc = "sending"

\* the send of the last buffer read was interrupted, by an error or by the
\* cancellation of the task
SendInterrupted == upc \in {"done", "cancelled"}

\* C13: decoding the base64 payloads of the append events, in send order,
\* gives back the bytes of the buffers read from the device, in read order:
\* the k-th append event carries the k-th buffer, so none is sent twice and
\* none is skipped; only the buffer read last may be missing, while its
\* send is open or after an error or a cancellation interrupted it.
C13_FramesRoundTripInOrder ==
    /\ \A k \in 1..Len(AppendsSent) :
          /\ Len(AppendsSent[k].audio) % 4 = 0
          /\ B64Decode(AppendsSent[k].audio) = Buffer(k)
    /\ Len(AppendsSent) <= frames
    /\ Len(AppendsSent) >= frames - 1
    /\ Len(AppendsSent) < frames => (SendOpen \/ SendInterrupted)
    /\ upc \in {"reading", "sleeping"} => Len(AppendsSent) = frames

\* two buffers, of two and of three bytes, were read and sent; the payloads
\* are the base64 texts "rg8=" and "+1y9"
C13_Witness ==
    /\ Len(AppendsSent) = 2 /\ frames = 2
    /\ AppendsSent[1].audio = <<"r", "g", "8", "=">>
    /\ AppendsSent[2].audio = <<"+", "1", "y", "9">>

\* C14 as claimed: the device read suspends the uplink only.  While the
\* uplink is inside a device read, the downlink can receive and dispatch a
\* message that has arrived, and the coordinator can act on a stop trigger
\* that has fired.
C14_ReadSuspendsUplinkOnly ==
    upc = "reading" =>
        /\ (/\ dpc = "recv" /\ ~dcancel
            /\ conn = "open" /\ peer = "no" /\ nrecv < MaxMsgs)
              => ENABLED (\E m \in Messages : DownlinkReceive(m))
        /\ (cpc = "waiting" /\ stopFired /\ dpc # "pending")
              => ENABLED CoordinatorStop

\* C15 as claimed: the close of the connection does not begin while the
\* uplink task or the downlink task is unfinished, also when awaiting the
\* uplink task raises (the device failed to open).
C15_CloseAfterBothLoops ==
    (cpc = "closing" /\ upc # "notcreated") =>
        (upc \in Finished /\ dpc \in Finished)

\* the step is an uplink iteration failing: the device read raised, or the
\* send raised because the connection was closed
UplinkIterationFails ==
    \/ upc = "reading" /\ upc' # "reading" /\ frames' = frames
    \/ upc = "sending" /\ ~ucancel /\ peer # "no" /\ upc' # "sending"

\* C16: a failure inside an uplink iteration ends the uplink without retry:
\* the step that meets it sends nothing, releases the capture stream in the
\* uplink itself and leaves the downlink where it is; afterwards the uplink
\* stays ended and no further append event is sent, while the downlink can
\* still end only by its own causes.
C16_UplinkFailureEndsUplinkOnly ==
    [][/\ UplinkIterationFails =>
            /\ upc' = "done"
            /\ stream = "open" /\ stream' = "closed"
            /\ streamCloses' = streamCloses + 1
            /\ sent' = sent
            /\ dpc' = dpc /\ dcancel' = dcancel
       /\ upc = "done" => (upc' = "done" /\ sent' = sent /\ frames' = frames)
       /\ (upc = "done" /\ dpc = "recv" /\ dpc' # "recv") =>
            (peer # "no" \/ dcancel)]_vars

\* the first device read failed, before the downlink had started, and the
\* downlink has since dispatched a message and emitted an output record
C16_Witness ==
    /\ upc = "done" /\ frames = 0 /\ stream = "closed"
    /\ dpc = "recv" /\ nrecv >= 1 /\ lastOutcome = "ok"
    /\ Len(outputs) >= 1
    /\ cpc = "waiting"

\* the coroutines with a send on the connection in progress or about to be
\* made: the coordinator from the open of the connection until the
\* configuration send has ended, the uplink while it awaits websocket.send
Senders ==
    (IF cpc = "connected" THEN {"coordinator"} ELSE {})
      \cup (IF upc = "sending" THEN {"uplink"} ELSE {})

\* the coroutines suspended in a receive on the connection
Receivers == IF dpc = "recv" THEN {"downlink"} ELSE {}

\* C17: at most one send and at most one receive are in flight on the
\* connection.  The configuration send has completed before the uplink and
\* the downlink exist; from then on a step that sends is a step of the
\* uplink completing its own send, and a step that receives is a step of
\* the downlink.
C17_OneSenderOneReceiver ==
    [][/\ Cardinality(Senders) <= 1 /\ Cardinality(Receivers) <= 1
       /\ (upc # "notcreated" \/ dpc # "notcreated") =>
             (cpc # "connected" /\ Len(sent) >= 1 /\ sent[1] = [type |-> "session.update"])
       /\ (sent' # sent /\ cpc # "connected") =>
             (upc = "sending" /\ upc' # "sending" /\ cpc' = cpc /\ dpc' = dpc)
       /\ nrecv' # nrecv => (dpc = "recv" /\ cpc' = cpc /\ upc' = upc)]_vars

\* the uplink awaits a send while the downlink is suspended in its receive
C17_Witness ==
    /\ Senders = {"uplink"} /\ Receivers = {"downlink"}
    /\ Len(sent) = 2

\* the step is a step of the coordinator and of no loop
CoordinatorStep == cpc' # cpc /\ UNCHANGED <<stream, streamCloses, frames>>
                     /\ UNCHANGED <<outputs, lastMsg, lastOutcome, nrecv>>

\* C18: the run flag is written by the coordinator only and moves one way:
\* from false to true once, in the step that follows the open of the
\* connection and completes the configuration send, and from true to false
\* once, in the step in which the coordinator acts on the stop trigger;
\* after that it is never true again.  No step of a loop changes it.
C18_RunFlagMonotone ==
    [][/\ (~running /\ running') =>
             /\ CoordinatorStep
             /\ cpc = "connected" /\ conn = "open"
             /\ sent = <<>> /\ sent' = <<[type |-> "session.update"]>>
       /\ (running /\ ~running') =>
             /\ CoordinatorStep
             /\ cpc = "waiting" /\ stopFired
       /\ (~running /\ cpc \notin {"start", "connected"}) => ~running'
       /\ running' # running => cpc' # cpc]_vars

\* the flag went up and came down again, and the run has ended
C18_Witness ==
    /\ ~running /\ cpc = "returned"
    /\ stopFired /\ Len(sent) >= 1

\* the coordinator has acted on the stop trigger and cleared the flag
StopObserved == ~running /\ cpc \notin {"start", "connected", "waiting"}

\* C19: in the step in which the coordinator clears the flag it also
\* requests the cancellation of every task that has not ended, and no loop
\* moves in that step; from then on no append event is sent, no send is
\* started, no device read is made, no message is dispatched and no output
\* record is emitted.
C19_NothingAfterStop ==
    [][/\ (running /\ ~running') =>
             /\ ucancel' = (upc \notin Finished)
             /\ dcancel' = (dpc \notin Finished)
             /\ upc' = upc /\ dpc' = dpc
             /\ sent' = sent /\ outputs' = outputs
       /\ StopObserved =>
             /\ sent' = sent /\ outputs' = outputs
             /\ nrecv' = nrecv /\ frames' = frames
             /\ (upc' = "sending" => upc = "sending")]_vars

\* the flag was cleared while the uplink awaited a send and the downlink
\* its receive, with room for further messages; neither has been resumed
C19_Witness ==
    /\ StopObserved /\ cpc = "await_audio"
    /\ upc = "sending" /\ ucancel
    /\ dpc = "recv" /\ dcancel
    /\ conn = "open" /\ peer = "no" /\ nrecv < MaxMsgs

\* the transcription thread holds an open stream of the audio backend
ThreadRecords == wthread = "record" /\ wstream = "open"

\* C20 as claimed: in the batch client the audio backend is not terminated
\* while the transcription thread is still using it; when cleanup()
\* terminates it after start_continuous_transcription has returned, the
\* thread has ended, also when the join timed out.
C20_AudioOutlivesThread ==
    (waudio = "terminated" /\ wmain = "exit") =>
        /\ ~ThreadRecords
        /\ woutcome = "returned" => wthread \in ThreadEnded

====
